---- MODULE Spec2Model ----
(***************************************************************************)
(* psd_tools.user_api.psd_image: the typed layer tree that PSDImage builds *)
(* from a decoded document, the per-layer queries on it, and the           *)
(* compositor merge_layers.                                                *)
(***************************************************************************)
EXTENDS Integers, Sequences, FiniteSets, TLC

VARIABLES
    doc,    \* the decoded document: the nested description and the layer records
    psd,    \* the PSDImage: its construction status and its nodes
    q       \* the call made on the PSDImage, with its arguments and its result

vars == <<doc, psd, q>>

(***************************************************************************)
(* Bounds of the model.                                                    *)
(***************************************************************************)
MaxRecords == 3

HeaderWidth == 2

HeaderHeight == 2

(***************************************************************************)
(* The decoded document.  Records are numbered 1..doc.n in the order of    *)
(* the nested description; doc.par[r] is the record whose 'layers' list    *)
(* (role "layer") or whose 'clip_layers' list (role "clip") holds r, and 0 *)
(* stands for the fake root data.  Lists are in record order.              *)
(***************************************************************************)
KindTags == {"group", "pixel", "shape", "type", "smartobject", "adjustment"}

NoneIndex == -1

RecordIds == 1..doc.n

IdSeq(n) == [i \in 1..n |-> i]

LayersOf(data) ==
    LET InLayers(r) == doc.role[r] = "layer" /\ doc.par[r] = data
    IN  SelectSeq(IdSeq(doc.n), InLayers)

ClipsOf(layer) ==
    LET InClips(r) == doc.role[r] = "clip" /\ doc.par[r] = layer
    IN  SelectSeq(IdSeq(doc.n), InClips)

\* The shape group_layers gives the description: a record with children is a
\* group, a clip entry hangs on a layer entry and has no entries of its own.
WellFormed(n, par, role, kind) ==
    \A r \in 1..n :
        /\ par[r] < r
        /\ IF par[r] = 0 THEN role[r] = "layer"
           ELSE /\ role[par[r]] = "layer"
                /\ role[r] = "layer" => kind[par[r]] = "group"

DefaultLook ==
    [bbox |-> <<0, 0, 1, 1>>, anchors |-> <<>>, opacity |-> 255,
     blend_mode |-> "normal", mode |-> "RGBA", alpha |-> 255]

\* The descriptions of up to MaxRecords records: leaves look like one of
\* Looks, groups like one of GroupLooks.
InitDocWith(Kinds, Roles, Vis, Masks, Looks, GroupLooks) ==
    \E n \in 0..MaxRecords :
      \E par \in [1..n -> 0..MaxRecords], role \in [1..n -> Roles] :
        \E kind \in [1..n -> Kinds] :
          /\ WellFormed(n, par, role, kind)
          /\ \E visible \in [1..n -> Vis], mask \in [1..n -> Masks],
                look \in [1..n -> Looks \cup GroupLooks] :
              /\ \A r \in 1..n :
                    IF kind[r] = "group" THEN look[r] \in GroupLooks
                    ELSE look[r] \in Looks
              /\ doc = [n |-> n, par |-> par, role |-> role, kind |-> kind,
                        index |-> [r \in 1..n |-> n - r],
                        header |-> [width |-> HeaderWidth,
                                    height |-> HeaderHeight],
                        visible |-> visible, mask_data |-> mask,
                        look |-> look]

InitDoc(Kinds, Roles, Vis, Masks, Looks) ==
    InitDocWith(Kinds, Roles, Vis, Masks, Looks, {DefaultLook})

(***************************************************************************)
(* Tree assembly: PSDImage.__init__ with its local make_layer/fill_group.  *)
(* Nodes are allocated in construction order; node 1 is the _RootGroup.    *)
(***************************************************************************)
RootId == 1

NewNode(cls, parent, index) ==
    [cls |-> cls, parent |-> parent, index |-> index,
     layers |-> <<>>, clip_layers |-> <<>>]

Alloc(t, cls, parent, index) ==
    [t EXCEPT !.nodes = Append(@, NewNode(cls, parent, index)),
              !.ret = Len(t.nodes) + 1]

RECURSIVE make_layer(_, _, _), fill_group(_, _, _)
RECURSIVE FillLoop(_, _, _, _), ClipLoop(_, _, _, _, _)
RECURSIVE ClipLoop_into_layers(_, _, _, _, _)

\* The unknown-kind branch only logs; `return child` then reads a local that
\* was never bound, which raises UnboundLocalError.
make_layer(t, group, layer) ==
    LET index == doc.index[layer]
        kind == doc.kind[layer]
    IN  CASE kind = "group" ->
               LET t1 == Alloc(t, "Group", group, index)
                   t2 == fill_group(t1, t1.ret, layer)
               IN  [t2 EXCEPT !.ret = t1.ret]
          [] kind = "adjustment" -> Alloc(t, "AdjustmentLayer", group, index)
          [] kind = "type" -> Alloc(t, "TypeLayer", group, index)
          [] kind = "shape" -> Alloc(t, "ShapeLayer", group, index)
          [] kind = "pixel" -> Alloc(t, "PixelLayer", group, index)
          [] kind = "smartobject" -> Alloc(t, "SmartObjectLayer", group, index)
          [] OTHER -> [t EXCEPT !.raised = TRUE]

ClipLoop_into_layers(t, group, child, clips, j) ==
    IF j > Len(clips) THEN t
    ELSE LET t1 == make_layer(t, group, clips[j])
         IN  IF t1.raised THEN t1
             ELSE ClipLoop_into_layers(
                      [t1 EXCEPT !.nodes[child].clip_layers = Append(@, t1.ret),
                                 !.nodes[group].layers = Append(@, t1.ret)],
                      group, child, clips, j + 1)

ClipLoop(t, group, child, clips, j) ==
    IF j > Len(clips) THEN t
    ELSE LET t1 == make_layer(t, group, clips[j])
         IN  IF t1.raised THEN t1
             ELSE ClipLoop([t1 EXCEPT !.nodes[child].clip_layers = Append(@, t1.ret)],
                           group, child, clips, j + 1)

FillLoop(t, group, layers, i) ==
    IF i > Len(layers) THEN t
    ELSE LET t1 == make_layer(t, group, layers[i])
         IN  IF t1.raised THEN t1
             ELSE LET child == t1.ret
                      t2 == [t1 EXCEPT !.nodes[group].layers = Append(@, child)]
                      t3 == ClipLoop(t2, group, child, ClipsOf(layers[i]), 1)
                  IN  IF t3.raised THEN t3
                      ELSE FillLoop(t3, group, layers, i + 1)

fill_group(t, group, data) == FillLoop(t, group, LayersOf(data), 1)

PSDImage_init ==
    LET root == NewNode("_RootGroup", 0, NoneIndex)
        t == fill_group([nodes |-> <<root>>, raised |-> FALSE, ret |-> 0],
                        RootId, 0)
    IN  IF t.raised THEN [status |-> "raised", nodes |-> <<>>]
        ELSE [status |-> "built", nodes |-> t.nodes]

(***************************************************************************)
(* Layer properties, read through the node's index into the record list.   *)
(***************************************************************************)
Nodes == 1..Len(psd.nodes)

IsRoot(L) == psd.nodes[L].cls = "_RootGroup"

layer_info(index) == CHOOSE r \in RecordIds : doc.index[r] = index

kind(L) ==
    CASE psd.nodes[L].cls \in {"Group", "_RootGroup"} -> "group"
      [] psd.nodes[L].cls = "AdjustmentLayer" -> "adjustment"
      [] psd.nodes[L].cls = "TypeLayer" -> "type"
      [] psd.nodes[L].cls = "ShapeLayer" -> "shape"
      [] psd.nodes[L].cls = "PixelLayer" -> "pixel"
      [] psd.nodes[L].cls = "SmartObjectLayer" -> "smartobject"

visible(L) ==
    IF IsRoot(L) THEN TRUE
    ELSE doc.visible[layer_info(psd.nodes[L].index)]

parent(L) == psd.nodes[L].parent

RECURSIVE visible_global(_)

visible_global_local_only(L) == visible(L)

visible_global(L) ==
    IF IsRoot(L) THEN TRUE
    ELSE visible(L) /\ visible_global(parent(L))

Truthy(index) == index # NoneIndex /\ index # 0

has_mask(L) ==
    IF Truthy(psd.nodes[L].index)
          /\ doc.mask_data[layer_info(psd.nodes[L].index)]
    THEN TRUE ELSE FALSE

mask(L) == IF has_mask(L) THEN "Mask" ELSE "None"

(***************************************************************************)
(* Geometry: BBox, the per-variant bbox, combined_bbox.                    *)
(***************************************************************************)
NoBBox == <<>>

Width(b) == b[3] - b[1]

Height(b) == b[4] - b[2]

SetMin(S) == CHOOSE x \in S : \A y \in S : x <= y

SetMax(S) == CHOOSE x \in S : \A y \in S : x >= y

look(L) == doc.look[layer_info(psd.nodes[L].index)]

IsGroup(L) == psd.nodes[L].cls \in {"Group", "_RootGroup"}

is_sizeless(L) == Width(look(L).bbox) = 0 \/ Height(look(L).bbox) = 0

\* ShapeLayer.bbox: the literal box, or the envelope of the anchors when the
\* literal box has no area.
shape_bbox(L) ==
    LET anchors == look(L).anchors
        xs == {anchors[i][1] : i \in 1..Len(anchors)}
        ys == {anchors[i][2] : i \in 1..Len(anchors)}
    IN  IF ~is_sizeless(L) THEN look(L).bbox
        ELSE IF Len(anchors) < 2 THEN <<0, 0, 0, 0>>
        ELSE <<SetMin(xs), SetMin(ys), SetMax(xs), SetMax(ys)>>

RECURSIVE bbox(_), combined_bbox(_)

HasArea(b) == b # NoBBox /\ Width(b) > 0 /\ Height(b) > 0

Envelope(bboxes) ==
    IF bboxes = <<>> THEN NoBBox
    ELSE LET I == 1..Len(bboxes)
         IN  <<SetMin({bboxes[i][1] : i \in I}), SetMin({bboxes[i][2] : i \in I}),
               SetMax({bboxes[i][3] : i \in I}), SetMax({bboxes[i][4] : i \in I})>>

combined_bbox_any_box(layers) ==
    LET NotNone(b) == b # NoBBox
    IN  Envelope(SelectSeq([i \in 1..Len(layers) |-> bbox(layers[i])], NotNone))

combined_bbox(layers) ==
    Envelope(SelectSeq([i \in 1..Len(layers) |-> bbox(layers[i])], HasArea))

bbox(L) ==
    IF IsGroup(L) THEN combined_bbox(psd.nodes[L].layers)
    ELSE IF psd.nodes[L].cls = "ShapeLayer" THEN shape_bbox(L)
    ELSE look(L).bbox

(***************************************************************************)
(* Rasters.  An image has a mode, a size and one pixel [c, a] per position *)
(* <<i, j>>, 0 <= i < w, 0 <= j < h: c stands for the colour channels, a   *)
(* for alpha.                                                              *)
(***************************************************************************)
Positions2(w, h) == (0..(w - 1)) \X (0..(h - 1))

Transparent == [c |-> 0, a |-> 0]

NewImage(w, h) ==
    [tag |-> "image", mode |-> "RGBA", w |-> w, h |-> h,
     px |-> [p \in Positions2(w, h) |-> Transparent]]

NoneImage == [tag |-> "None"]

Raised == [tag |-> "raised"]

\* pil_support.extract_layer_image: the layer's own pixels, of the size of
\* its record's box; each pixel is told apart by its layer and its position.
as_PIL(L) ==
    LET b == look(L).bbox
        w == IF Width(b) > 0 THEN Width(b) ELSE 0
        h == IF Height(b) > 0 THEN Height(b) ELSE 0
    IN  [tag |-> "image", mode |-> look(L).mode, w |-> w, h |-> h,
         px |-> [p \in Positions2(w, h) |->
                   [c |-> 16 * (psd.nodes[L].index + 1) + 4 * p[1] + p[2],
                    a |-> IF look(L).mode = "RGBA" THEN look(L).alpha ELSE 255]]]

\* pil_support.apply_opacity: alpha scaled by opacity/255.
apply_opacity(im, opacity) ==
    IF im.mode = "RGBA"
    THEN [im EXCEPT !.px = [p \in DOMAIN im.px |->
                              [im.px[p] EXCEPT !.a = (@ * opacity) \div 255]]]
    ELSE im

crop_none(im, left, upper) == im

\* Image.crop((left, upper, w, h)).
crop(im, left, upper) ==
    LET w == IF im.w > left THEN im.w - left ELSE 0
        h == IF im.h > upper THEN im.h - upper ELSE 0
    IN  [im EXCEPT !.w = w, !.h = h,
                   !.px = [p \in Positions2(w, h) |->
                             im.px[<<p[1] + left, p[2] + upper>>]]]

\* Image.paste(im, (x, y)): the pixels of im that fall on the canvas replace it.
paste(canvas, im, x, y) ==
    [canvas EXCEPT !.px = [p \in DOMAIN canvas.px |->
        IF <<p[1] - x, p[2] - y>> \in DOMAIN im.px
        THEN im.px[<<p[1] - x, p[2] - y>>]
        ELSE canvas.px[p]]]

\* One pixel of Image.alpha_composite: src over dst.
Over(dst, src) ==
    IF src.a = 0 THEN dst
    ELSE IF dst.a = 0 \/ src.a = 255 THEN src
    ELSE LET a == src.a + (dst.a * (255 - src.a)) \div 255
         IN  [c |-> (src.c * src.a * 255 + dst.c * dst.a * (255 - src.a))
                       \div (a * 255),
              a |-> a]

alpha_composite(dst, src) ==
    [dst EXCEPT !.px = [p \in DOMAIN dst.px |-> Over(dst.px[p], src.px[p])]]

(***************************************************************************)
(* merge_layers.                                                           *)
(***************************************************************************)
opacity(L) == look(L).opacity

blend_mode(L) == look(L).blend_mode

RECURSIVE merge_layers(_, _, _, _), MergeLoop(_, _, _, _, _, _)

\* Where a layer's raster goes on the canvas, and what is left of it: the
\* offset of the layer's origin from the canvas origin, the raster cropped
\* at the top and the left by what lies before the canvas origin, and the
\* offset moved to the canvas edge: lines 746-755.
place(layer, layer_image, canvas_bbox) ==
    LET x0 == bbox(layer)[1] - canvas_bbox[1]
        y0 == bbox(layer)[2] - canvas_bbox[2]
        x_overflow == IF x0 < 0 THEN -x0 ELSE 0
        y_overflow == IF y0 < 0 THEN -y0 ELSE 0
    IN  IF x0 < 0 \/ y0 < 0
        THEN [image |-> crop(layer_image, x_overflow, y_overflow),
              x |-> x0 + x_overflow, y |-> y0 + y_overflow]
        ELSE [image |-> layer_image, x |-> x0, y |-> y0]

Blend_any_mode(result, layer, layer_image, canvas_bbox) ==
    LET at == place(layer, layer_image, canvas_bbox)
    IN  IF at.image.mode = "RGBA"
        THEN alpha_composite(result,
                 paste(NewImage(result.w, result.h), at.image, at.x, at.y))
        ELSE paste(result, at.image, at.x, at.y)

\* The blend step of one layer: lines 746-776.
Blend(result, layer, layer_image, canvas_bbox) ==
    LET at == place(layer, layer_image, canvas_bbox)
    IN  IF blend_mode(layer) = "normal"
        THEN IF at.image.mode = "RGBA"
             THEN alpha_composite(result,
                      paste(NewImage(result.w, result.h), at.image, at.x, at.y))
             ELSE IF at.image.mode = "RGB"
             THEN paste(result, at.image, at.x, at.y)
             ELSE result
        ELSE result

NoneLayer == 0

not_reversed(layers) == layers

reversed(layers) == [k \in 1..Len(layers) |-> layers[Len(layers) - k + 1]]

\* The three tests that make the loop pass over a layer that has a bbox:
\* lines 729-736.
skipped(layer, respect_visibility, skip_layer) ==
    IF Width(bbox(layer)) = 0 /\ Height(bbox(layer)) = 0 THEN TRUE
    ELSE IF layer \in skip_layer THEN TRUE
    ELSE ~visible(layer) /\ respect_visibility

\* The loop body from the k-th element of `order` on: lines 724-776.
MergeLoop(order, k, respect_visibility, skip_layer, canvas_bbox, result) ==
    IF k > Len(order) THEN result
    ELSE LET layer == order[k]
             rest(r) == MergeLoop(order, k + 1, respect_visibility,
                                  skip_layer, canvas_bbox, r)
         IN  IF layer = NoneLayer THEN rest(result)
             ELSE IF bbox(layer) = NoBBox THEN Raised
             ELSE IF skipped(layer, respect_visibility, skip_layer)
             THEN rest(result)
             ELSE LET raw == IF IsGroup(layer)
                             THEN merge_layers(psd.nodes[layer].layers,
                                               respect_visibility, skip_layer,
                                               NoBBox)
                             ELSE as_PIL(layer)
                  IN  IF raw.tag # "image" THEN Raised
                      ELSE rest(Blend(result, layer,
                                      apply_opacity(raw, opacity(layer)),
                                      canvas_bbox))

merge_layers(layers, respect_visibility, skip_layer, target_bbox) ==
    LET canvas_bbox == IF target_bbox = NoBBox THEN combined_bbox(layers)
                       ELSE target_bbox
    IN  IF canvas_bbox = NoBBox THEN NoneImage
        ELSE MergeLoop(reversed(layers), 1, respect_visibility,
                       skip_layer, canvas_bbox,
                       NewImage(Width(canvas_bbox), Height(canvas_bbox)))

RECURSIVE rasterized(_, _, _, _), RasterLoop(_, _, _, _)

\* The layers the loop rasterizes from the k-th element of `order` on, that
\* is those for which it reaches layer.as_PIL() or the nested merge_layers
\* call (lines 738-742), the ones of the nested calls included.
RasterLoop(order, k, respect_visibility, skip_layer) ==
    IF k > Len(order) THEN {}
    ELSE LET layer == order[k]
             rest == RasterLoop(order, k + 1, respect_visibility, skip_layer)
         IN  IF layer = NoneLayer THEN rest
             ELSE IF bbox(layer) = NoBBox THEN {}
             ELSE IF skipped(layer, respect_visibility, skip_layer) THEN rest
             ELSE IF ~IsGroup(layer) THEN {layer} \cup rest
             ELSE {layer}
                  \cup rasterized(psd.nodes[layer].layers, respect_visibility,
                                  skip_layer, NoBBox)
                  \cup IF merge_layers(psd.nodes[layer].layers,
                                       respect_visibility, skip_layer,
                                       NoBBox).tag = "image"
                       THEN rest ELSE {}

rasterized(layers, respect_visibility, skip_layer, target_bbox) ==
    LET canvas_bbox == IF target_bbox = NoBBox THEN combined_bbox(layers)
                       ELSE target_bbox
    IN  IF canvas_bbox = NoBBox THEN {}
        ELSE RasterLoop(reversed(layers), 1, respect_visibility, skip_layer)

Group_as_PIL(G) == merge_layers(psd.nodes[G].layers, TRUE, {}, NoBBox)

as_PIL_merged ==
    merge_layers(psd.nodes[RootId].layers, TRUE, {},
                 <<0, 0, doc.header.width, doc.header.height>>)

(***************************************************************************)
(* Actions.                                                                *)
(***************************************************************************)
NoQuery == [op |-> "none"]

Construct ==
    /\ psd.status = "unbuilt"
    /\ psd' = PSDImage_init
    /\ UNCHANGED <<doc, q>>

QueryVisibleGlobal ==
    /\ psd.status = "built"
    /\ q = NoQuery
    /\ \E L \in Nodes :
          q' = [op |-> "visible_global", layer |-> L, res |-> visible_global(L)]
    /\ UNCHANGED <<doc, psd>>

QueryHasMask ==
    /\ psd.status = "built"
    /\ q = NoQuery
    /\ \E L \in Nodes :
          q' = [op |-> "has_mask", layer |-> L, res |-> has_mask(L),
                mask |-> mask(L)]
    /\ UNCHANGED <<doc, psd>>

MergeQuery(layers, respect_visibility, skip_layer, target_bbox) ==
    [op |-> "merge", layers |-> layers,
     respect_visibility |-> respect_visibility, skip_layer |-> skip_layer,
     bbox |-> target_bbox,
     res |-> merge_layers(layers, respect_visibility, skip_layer, target_bbox)]

\* Group.bbox of a group, PSDImage.bbox for the root.
QueryBBox ==
    /\ psd.status = "built"
    /\ q = NoQuery
    /\ \E G \in Nodes :
          /\ IsGroup(G)
          /\ q' = [op |-> "bbox", layer |-> G, res |-> bbox(G)]
    /\ UNCHANGED <<doc, psd>>

GroupAsPIL ==
    /\ psd.status = "built"
    /\ q = NoQuery
    /\ \E G \in Nodes \ {RootId} :
          /\ IsGroup(G)
          /\ q' = [MergeQuery(psd.nodes[G].layers, TRUE, {}, NoBBox)
                      EXCEPT !.res = Group_as_PIL(G)]
    /\ UNCHANGED <<doc, psd>>

AsPILMerged ==
    /\ psd.status = "built"
    /\ q = NoQuery
    /\ q' = [MergeQuery(psd.nodes[RootId].layers, TRUE, {},
                        <<0, 0, doc.header.width, doc.header.height>>)
                EXCEPT !.res = as_PIL_merged]
    /\ UNCHANGED <<doc, psd>>

\* The target boxes a caller of merge_layers passes: none, or a box whose
\* origin is right of the layers' origin.
Targets == {NoBBox, <<1, 0, 2, 2>>}

\* A direct call of merge_layers on the layers of the image or of a group.
MergeLayers ==
    /\ psd.status = "built"
    /\ q = NoQuery
    /\ \E G \in Nodes, respect_visibility \in BOOLEAN, target_bbox \in Targets :
          /\ IsGroup(G)
          /\ \E skip_layer \in {{}, {Head(psd.nodes[G].layers \o <<NoneLayer>>)}} :
                q' = MergeQuery(psd.nodes[G].layers, respect_visibility,
                                skip_layer, target_bbox)
    /\ UNCHANGED <<doc, psd>>

Unbuilt == [status |-> "unbuilt", nodes |-> <<>>]

NextTree == Construct \/ QueryVisibleGlobal \/ QueryHasMask

\* Tree assembly over every kind tag and one that is none of them.
Init ==
    /\ InitDoc(KindTags \cup {"bogus"}, {"layer", "clip"}, {TRUE}, {FALSE},
               {DefaultLook})
    /\ psd = Unbuilt
    /\ q = NoQuery

Next == NextTree

Spec == Init /\ [][Next]_vars

\* Every visibility flag, on groups, leaves and clip entries.
InitVis ==
    /\ InitDoc({"group", "pixel"}, {"layer", "clip"}, BOOLEAN, {FALSE},
               {DefaultLook})
    /\ psd = Unbuilt
    /\ q = NoQuery

SpecVis == InitVis /\ [][NextTree]_vars

\* Every mask sub-record, on groups, leaves and clip entries.
InitMask ==
    /\ InitDoc({"group", "pixel"}, {"layer", "clip"}, {TRUE}, BOOLEAN,
               {DefaultLook})
    /\ psd = Unbuilt
    /\ q = NoQuery

SpecMask == InitMask /\ [][NextTree]_vars

\* Boxes: two with area, one without area lying outside both.
LooksBBox ==
    {[DefaultLook EXCEPT !.bbox = b] :
        b \in {<<0, 0, 1, 1>>, <<1, 1, 2, 2>>, <<2, 0, 2, 1>>}}

InitBBox ==
    /\ InitDoc({"group", "pixel"}, {"layer", "clip"}, {TRUE}, {FALSE}, LooksBBox)
    /\ psd = Unbuilt
    /\ q = NoQuery

NextBBox == Construct \/ QueryBBox

SpecBBox == InitBBox /\ [][NextBBox]_vars

\* Rasters: an opaque one, a half-transparent one and one without alpha.
LooksMerge ==
    {[DefaultLook EXCEPT !.bbox = <<0, 0, 2, 1>>],
     [DefaultLook EXCEPT !.bbox = <<1, 0, 2, 2>>, !.alpha = 128],
     [DefaultLook EXCEPT !.bbox = <<0, 0, 1, 1>>, !.mode = "RGB", !.opacity = 128]}

InitMerge ==
    /\ InitDoc({"group", "pixel"}, {"layer"}, BOOLEAN, {FALSE}, LooksMerge)
    /\ psd = Unbuilt
    /\ q = NoQuery

NextMerge == Construct \/ GroupAsPIL \/ AsPILMerged \/ MergeLayers

SpecMerge == InitMerge /\ [][NextMerge]_vars

\* Boxes for the skip tests: one with area, one without width but with
\* height, one without either.
LooksSkip ==
    {[DefaultLook EXCEPT !.bbox = b] :
        b \in {<<0, 0, 1, 1>>, <<1, 0, 1, 1>>, <<0, 0, 0, 0>>}}

InitSkip ==
    /\ InitDoc({"group", "pixel"}, {"layer"}, BOOLEAN, {FALSE}, LooksSkip)
    /\ psd = Unbuilt
    /\ q = NoQuery

SpecSkip == InitSkip /\ [][NextMerge]_vars

\* Boxes for the placement: one that starts above and left of the image
\* origin, one that starts above it only, one that ends below and right of
\* the image; all opaque.
LooksPlace ==
    {[DefaultLook EXCEPT !.bbox = b] :
        b \in {<<-1, -1, 1, 1>>, <<0, -1, 1, 1>>, <<1, 1, 3, 3>>}}

InitPlace ==
    /\ InitDoc({"group", "pixel"}, {"layer"}, {TRUE}, {FALSE}, LooksPlace)
    /\ psd = Unbuilt
    /\ q = NoQuery

SpecPlace == InitPlace /\ [][NextMerge]_vars

\* Layers for the blend step: a normal one, one with another blend mode
\* that reaches past the first, one whose raster is neither RGBA nor RGB;
\* groups are normal or of another blend mode.
LooksBlend ==
    {DefaultLook,
     [DefaultLook EXCEPT !.bbox = <<0, 0, 2, 2>>, !.blend_mode = "multiply"],
     [DefaultLook EXCEPT !.bbox = <<1, 0, 2, 1>>, !.mode = "L"]}

GroupLooksBlend ==
    {DefaultLook, [DefaultLook EXCEPT !.blend_mode = "multiply"]}

InitBlend ==
    /\ InitDocWith({"group", "pixel"}, {"layer"}, {TRUE}, {FALSE}, LooksBlend,
                   GroupLooksBlend)
    /\ psd = Unbuilt
    /\ q = NoQuery

SpecBlend == InitBlend /\ [][NextMerge]_vars

\* Layers and clip entries, all opaque, on two boxes that overlap.
LooksClip ==
    {DefaultLook, [DefaultLook EXCEPT !.bbox = <<0, 0, 2, 1>>]}

InitClip ==
    /\ InitDoc({"group", "pixel"}, {"layer", "clip"}, {TRUE}, {FALSE}, LooksClip)
    /\ psd = Unbuilt
    /\ q = NoQuery

SpecClip == InitClip /\ [][NextMerge]_vars

(***************************************************************************)
(* Where a record ended up in the tree.                                    *)
(***************************************************************************)
NodesOf(r) == {L \in Nodes : ~IsRoot(L) /\ psd.nodes[L].index = doc.index[r]}

Positions(list, L) == {i \in 1..Len(list) : list[i] = L}

InChildren(L) ==
    {gi \in Nodes \X (1..MaxRecords) :
        gi[2] \in Positions(psd.nodes[gi[1]].layers, L)}

InClips(L) ==
    {gi \in Nodes \X (1..MaxRecords) :
        gi[2] \in Positions(psd.nodes[gi[1]].clip_layers, L)}

ClassOf(tag) ==
    CASE tag = "group" -> "Group"
      [] tag = "adjustment" -> "AdjustmentLayer"
      [] tag = "type" -> "TypeLayer"
      [] tag = "shape" -> "ShapeLayer"
      [] tag = "pixel" -> "PixelLayer"
      [] tag = "smartobject" -> "SmartObjectLayer"
      [] OTHER -> "None"

Known(r) == doc.kind[r] \in KindTags

\* The known-kind records of a list of the description, in input order.
KnownOf(list) ==
    LET IsKnown(r) == Known(r)
    IN  SelectSeq(list, IsKnown)

\* The node of record r, when there is exactly one.
NodeOf(r) == CHOOSE L \in NodesOf(r) : TRUE

OnceInTree(r) ==
    /\ Cardinality(NodesOf(r)) = 1
    /\ psd.nodes[NodeOf(r)].cls = ClassOf(doc.kind[r])
    /\ Cardinality(InChildren(NodeOf(r))) + Cardinality(InClips(NodeOf(r))) = 1

\* The lists of the tree are the lists of the description, unknown kinds left out.
ListsFollowInput ==
    /\ [i \in 1..Len(psd.nodes[RootId].layers) |->
            psd.nodes[psd.nodes[RootId].layers[i]].index]
         = [i \in 1..Len(KnownOf(LayersOf(0))) |-> doc.index[KnownOf(LayersOf(0))[i]]]
    /\ \A r \in RecordIds : Known(r) /\ Cardinality(NodesOf(r)) = 1 =>
          /\ [i \in 1..Len(psd.nodes[NodeOf(r)].layers) |->
                  psd.nodes[psd.nodes[NodeOf(r)].layers[i]].index]
               = [i \in 1..Len(KnownOf(LayersOf(r))) |->
                     doc.index[KnownOf(LayersOf(r))[i]]]
          /\ [i \in 1..Len(psd.nodes[NodeOf(r)].clip_layers) |->
                  psd.nodes[psd.nodes[NodeOf(r)].clip_layers[i]].index]
               = [i \in 1..Len(KnownOf(ClipsOf(r))) |->
                     doc.index[KnownOf(ClipsOf(r))[i]]]

\* C1: a record with an unknown kind tag is skipped: it is in no children list
\* and in no clip list, assembly does not abort, and every other record of the
\* input is assembled.
C1_UnknownKindSkipped ==
    psd.status # "unbuilt" =>
        /\ psd.status = "built"
        /\ \A r \in RecordIds :
              IF Known(r) THEN OnceInTree(r) ELSE NodesOf(r) = {}

\* C2: assembly makes exactly one node per record with a known kind tag, of the
\* class of that tag, and the node is exactly once in the tree: in the children
\* of its group, in input order, or in the clip list of its owner.
C2_OneNodePerRecord ==
    psd.status # "unbuilt" =>
        \A r \in RecordIds : Known(r) =>
            /\ psd.status = "built"
            /\ OnceInTree(r)
            /\ ListsFollowInput

\* What C2 says, on the descriptions whose kind tags are all known.
C2_WhenAllKindsKnown ==
    (psd.status # "unbuilt" /\ \A r \in RecordIds : Known(r)) =>
        /\ psd.status = "built"
        /\ \A r \in RecordIds : OnceInTree(r)
        /\ ListsFollowInput

(***************************************************************************)
(* visible_global.                                                         *)
(***************************************************************************)
RECURSIVE Ancestor(_, _)

\* The k-th node up the parent chain of L, the root being its own end.
Ancestor(L, k) ==
    IF k = 0 \/ IsRoot(L) THEN L ELSE Ancestor(parent(L), k - 1)

ChainOf(L) == {Ancestor(L, k) : k \in 0..Len(psd.nodes)}

\* C4: visible_global(L) = visible(L) AND visible_global(parent(L)) for every
\* layer but the root, children and clip entries alike; visible_global(root)
\* is true; the parent chain of every layer ends at the root.
C4_VisibleGlobal ==
    psd.status = "built" =>
        /\ visible_global(RootId) = TRUE
        /\ \A L \in Nodes \ {RootId} :
              /\ visible_global(L) = (visible(L) /\ visible_global(parent(L)))
              /\ RootId \in ChainOf(L)
              /\ visible_global(L) = (\A A \in ChainOf(L) : visible(A))
        /\ q.op = "visible_global" =>
              q.res = (\A A \in ChainOf(q.layer) : visible(A))

\* A visible clip entry inside a hidden group was asked and is globally hidden.
C4_Witness ==
    /\ psd.status = "built"
    /\ q.op = "visible_global"
    /\ InClips(q.layer) # {}
    /\ visible(q.layer)
    /\ parent(q.layer) # RootId
    /\ q.res = FALSE

(***************************************************************************)
(* has_mask.                                                               *)
(***************************************************************************)
\* C9: has_mask() is true, and mask is not null, exactly when the layer is not
\* the root and its record has a mask sub-record, whatever the record's index.
C9_HasMask ==
    psd.status = "built" =>
        \A L \in Nodes :
            /\ has_mask(L) =
                  (~IsRoot(L) /\ doc.mask_data[layer_info(psd.nodes[L].index)])
            /\ (mask(L) # "None") = has_mask(L)

(***************************************************************************)
(* combined_bbox and Group.bbox.                                           *)
(***************************************************************************)
Children(G) == {psd.nodes[G].layers[i] : i \in 1..Len(psd.nodes[G].layers)}

RECURSIVE LeavesUnder(_)

\* The layers that are not groups, reached from G through children lists.
LeavesUnder(G) ==
    UNION {IF IsGroup(c) THEN LeavesUnder(c) ELSE {c} : c \in Children(G)}

EnvelopeOfSet(B) ==
    IF B = {} THEN NoBBox
    ELSE <<SetMin({b[1] : b \in B}), SetMin({b[2] : b \in B}),
           SetMax({b[3] : b \in B}), SetMax({b[4] : b \in B})>>

\* C5: combined_bbox is null when no layer has a non-null box with positive
\* width and height, else (min x1, min y1, max x2, max y2) over those that do;
\* the bbox of every group, nested ones included, is combined_bbox of its
\* children, so a nested group without a box adds nothing to its parent.
C5_CombinedBBox ==
    psd.status = "built" =>
        /\ \A G \in Nodes : IsGroup(G) =>
              /\ combined_bbox(psd.nodes[G].layers)
                    = EnvelopeOfSet({bbox(c) : c \in
                          {d \in Children(G) : HasArea(bbox(d))}})
              /\ bbox(G) = combined_bbox(psd.nodes[G].layers)
              /\ bbox(G) = EnvelopeOfSet({bbox(c) : c \in
                              {d \in LeavesUnder(G) : HasArea(bbox(d))}})
        /\ q.op = "bbox" =>
              q.res = EnvelopeOfSet({bbox(c) : c \in
                          {d \in Children(q.layer) : HasArea(bbox(d))}})

\* The box of a group was asked that holds a nested group without a box, a
\* layer whose box has no area and a layer whose box has.
C5_Witness ==
    /\ psd.status = "built"
    /\ q.op = "bbox"
    /\ q.res # NoBBox
    /\ \E c \in Children(q.layer) : IsGroup(c) /\ bbox(c) = NoBBox
    /\ \E c \in Children(q.layer) : ~IsGroup(c) /\ ~HasArea(bbox(c))

(***************************************************************************)
(* merge_layers.                                                           *)
(***************************************************************************)
ResolvedBBox ==
    IF q.bbox = NoBBox THEN combined_bbox(q.layers) ELSE q.bbox

InList(L) == \E i \in 1..Len(q.layers) : q.layers[i] = L

\* C3: merge_layers never aborts; it returns null exactly when no target box
\* is given and combined_bbox(layers) is null, and a raster otherwise, also
\* for a list that holds a group whose bbox is null.
C3_MergeNeverAborts ==
    (psd.status = "built" /\ q.op = "merge") =>
        /\ q.res.tag # "raised"
        /\ (q.res.tag = "None") = (ResolvedBBox = NoBBox)
        /\ (q.res.tag = "image") = (ResolvedBBox # NoBBox)

\* C7: with respect_visibility and every layer of the list hidden, the result
\* is a fully transparent canvas of the size of the resolved box, or null when
\* there is no box.
C7_AllInvisible ==
    (/\ psd.status = "built"
     /\ q.op = "merge"
     /\ q.respect_visibility
     /\ \A i \in 1..Len(q.layers) : ~visible(q.layers[i])) =>
        IF ResolvedBBox = NoBBox THEN q.res.tag = "None"
        ELSE /\ q.res.tag = "image"
             /\ q.res = NewImage(Width(ResolvedBBox), Height(ResolvedBBox))

\* A layer of the call's list that passes the skip tests and is blended.
Painted(L) ==
    /\ bbox(L) # NoBBox
    /\ ~(Width(bbox(L)) = 0 /\ Height(bbox(L)) = 0)
    /\ L \notin q.skip_layer
    /\ visible(L) \/ ~q.respect_visibility
    /\ blend_mode(L) = "normal"

\* The raster the call composes for layer L, opacity applied.
RasterOf(L) ==
    apply_opacity(IF IsGroup(L)
                  THEN merge_layers(psd.nodes[L].layers, q.respect_visibility,
                                    q.skip_layer, NoBBox)
                  ELSE as_PIL(L),
                  opacity(L))

\* What the nested merge_layers call returns for group L.
RasterOfGroup(L) ==
    merge_layers(psd.nodes[L].layers, q.respect_visibility, q.skip_layer, NoBBox)

\* The position in L's raster that lies at canvas position p.
SourceOf(L, p) ==
    <<p[1] - (bbox(L)[1] - ResolvedBBox[1]), p[2] - (bbox(L)[2] - ResolvedBBox[2])>>

\* The rasters of the painted layers of the call's list, by list position.
PaintedRasters ==
    [i \in {k \in 1..Len(q.layers) : Painted(q.layers[k])} |->
        RasterOf(q.layers[i])]

\* C6: the list is painted from its last element to its first: where painted
\* layers overlap, an opaque pixel of a layer earlier in the list is what the
\* composite shows unless a layer still earlier covers it; two siblings on
\* the same bbox with the top one fully opaque compose to the top one's raster.
C6_TopDrawnOver ==
    (psd.status = "built" /\ q.op = "merge" /\ q.res.tag = "image") =>
        LET R == PaintedRasters
            Covers(i, p) ==
                /\ R[i].mode \in {"RGBA", "RGB"}
                /\ SourceOf(q.layers[i], p) \in DOMAIN R[i].px
            PixelAt(i, p) == R[i].px[SourceOf(q.layers[i], p)]
        IN  /\ \A p \in DOMAIN q.res.px : \A i \in DOMAIN R :
                  (/\ Covers(i, p)
                   /\ PixelAt(i, p).a = 255
                   /\ \A j \in DOMAIN R :
                         (j < i /\ Covers(j, p)) => PixelAt(j, p).a = 0)
                  => q.res.px[p] = PixelAt(i, p)
            /\ (/\ {1, 2} \subseteq DOMAIN R
                /\ bbox(q.layers[1]) = bbox(q.layers[2])
                /\ ResolvedBBox = bbox(q.layers[1])
                /\ R[1].mode \in {"RGBA", "RGB"}
                /\ \A s \in DOMAIN R[1].px : R[1].px[s].a = 255)
               => /\ q.res.w = R[1].w
                  /\ q.res.h = R[1].h
                  /\ q.res.px = R[1].px

\* Two opaque painted siblings on the same box were merged: the composite is
\* the top one's raster and not the bottom one's.
C6_Witness ==
    /\ psd.status = "built"
    /\ q.op = "merge"
    /\ q.res.tag = "image"
    /\ Len(q.layers) >= 2
    /\ Painted(q.layers[1])
    /\ Painted(q.layers[2])
    /\ ~IsGroup(q.layers[1])
    /\ ~IsGroup(q.layers[2])
    /\ bbox(q.layers[1]) = bbox(q.layers[2])
    /\ ResolvedBBox = bbox(q.layers[1])
    /\ \A s \in DOMAIN RasterOf(q.layers[1]).px :
          RasterOf(q.layers[1]).px[s].a = 255
    /\ \A s \in DOMAIN RasterOf(q.layers[2]).px :
          RasterOf(q.layers[2]).px[s].a = 255
    /\ q.res.px = RasterOf(q.layers[1]).px
    /\ q.res.px # RasterOf(q.layers[2]).px

(***************************************************************************)
(* SmartObjectLayer.  Here doc holds the tagged blocks of one smart-object *)
(* layer and the ids of the embedded registry; psd holds the layer's       *)
(* _placed.  A placed-layer block is a list of entries, each entry here by *)
(* what its value is like.                                                 *)
(***************************************************************************)
PlacedKeys ==
    <<"SMART_OBJECT_PLACED_LAYER_DATA", "PLACED_LAYER_DATA",
      "PLACED_LAYER_OBSOLETE1", "PLACED_LAYER_OBSOLETE2">>

Block(id, transform, size) ==
    [found |-> TRUE, ID |-> id, TRANSFORM |-> transform, SIZE |-> size]

NoneBlock ==
    [found |-> FALSE, ID |-> "absent", TRANSFORM |-> "absent", SIZE |-> "absent"]

PlacedBlocks ==
    {Block("absent", "absent", "absent"), Block("uid1", "corners", "size"),
     Block("uid2", "empty", "empty"), Block("absent", "corners", "size"),
     Block("uid1", "absent", "size"), Block("uid1", "corners", "absent")}

Corners == <<0, 0, 2, 0, 2, 1, 0, 1>>

RECURSIVE GetFrom(_, _)

\* blocks.get(k1, blocks.get(k2, blocks.get(k3, blocks.get(k4)))).
GetFrom(blocks, k) ==
    IF k > Len(PlacedKeys) THEN NoneBlock
    ELSE IF PlacedKeys[k] \in DOMAIN blocks THEN blocks[PlacedKeys[k]]
    ELSE GetFrom(blocks, k + 1)

placed_layer_block == GetFrom(doc.tagged_blocks, 1)

\* The truth value of a block or of the dict made of it: some entry is there.
NotEmpty(b) ==
    b.found /\ (b.ID # "absent" \/ b.TRANSFORM # "absent" \/ b.SIZE # "absent")

SmartObjectLayer_init ==
    [status |-> "built",
     placed |-> IF NotEmpty(placed_layer_block) THEN placed_layer_block
                ELSE NoneBlock]

NoneResult == [tag |-> "None", value |-> <<>>]

RaisedResult == [tag |-> "raised", value |-> <<>>]

Value(v) == [tag |-> "value", value |-> v]

\* self._placed.get(ID) is None when the entry is absent, and .value raises.
unique_id ==
    IF NotEmpty(psd.placed)
    THEN IF psd.placed.ID = "absent" THEN RaisedResult
         ELSE Value(psd.placed.ID)
    ELSE NoneResult

linked_data ==
    IF unique_id.tag = "raised" THEN RaisedResult
    ELSE IF unique_id.tag = "value"
    THEN IF unique_id.value \in doc.embedded
         THEN Value(<<"Embedded", unique_id.value>>)
         ELSE NoneResult
    ELSE NoneResult

\* PlacedLayerData.transform subscripts the dict: KeyError when absent.
transform_bbox ==
    IF ~NotEmpty(placed_layer_block) THEN NoneResult
    ELSE IF placed_layer_block.TRANSFORM = "absent" THEN RaisedResult
    ELSE IF placed_layer_block.TRANSFORM = "empty" THEN NoneResult
    ELSE Value(<<Corners[1], Corners[2], Corners[5], Corners[6]>>)

\* PlacedLayerData.size subscripts the dict: KeyError when absent.
placed_layer_size ==
    IF ~NotEmpty(placed_layer_block) THEN NoneResult
    ELSE IF placed_layer_block.SIZE = "absent" THEN RaisedResult
    ELSE IF placed_layer_block.SIZE = "empty" THEN NoneResult
    ELSE Value([width |-> 2, height |-> 1])

ConstructSmartObject ==
    /\ psd.status = "unbuilt"
    /\ psd' = SmartObjectLayer_init
    /\ UNCHANGED <<doc, q>>

QueryUniqueId ==
    /\ psd.status = "built"
    /\ q = NoQuery
    /\ q' = [op |-> "unique_id", res |-> unique_id]
    /\ UNCHANGED <<doc, psd>>

QueryLinkedData ==
    /\ psd.status = "built"
    /\ q = NoQuery
    /\ q' = [op |-> "linked_data", res |-> linked_data]
    /\ UNCHANGED <<doc, psd>>

QueryTransformBBox ==
    /\ psd.status = "built"
    /\ q = NoQuery
    /\ q' = [op |-> "transform_bbox", res |-> transform_bbox]
    /\ UNCHANGED <<doc, psd>>

QueryPlacedLayerSize ==
    /\ psd.status = "built"
    /\ q = NoQuery
    /\ q' = [op |-> "placed_layer_size", res |-> placed_layer_size]
    /\ UNCHANGED <<doc, psd>>

KeySet == {PlacedKeys[k] : k \in 1..Len(PlacedKeys)}

InitSmartObject ==
    /\ \E K \in SUBSET KeySet : \E blocks \in [K -> PlacedBlocks] :
          \E embedded \in SUBSET {"uid1"} :
             doc = [tagged_blocks |-> blocks, embedded |-> embedded]
    /\ psd = [status |-> "unbuilt", placed |-> NoneBlock]
    /\ q = NoQuery

NextSmartObject ==
    \/ ConstructSmartObject
    \/ QueryUniqueId
    \/ QueryLinkedData
    \/ QueryTransformBBox
    \/ QueryPlacedLayerSize

SpecSmartObject == InitSmartObject /\ [][NextSmartObject]_vars

SmartObjectQueries ==
    {"unique_id", "linked_data", "transform_bbox", "placed_layer_size"}

\* The entry a query reads from the block.
EntryRead(op) ==
    CASE op = "unique_id" -> placed_layer_block.ID
      [] op = "linked_data" -> placed_layer_block.ID
      [] op = "transform_bbox" -> placed_layer_block.TRANSFORM
      [] op = "placed_layer_size" -> placed_layer_block.SIZE

\* C8: no SmartObject query raises on missing metadata: each returns null when
\* no placed-layer block is under any of the four identifiers and when the
\* block lacks the entry the query reads; linked_data() also returns null
\* when the id is not in the embedded registry.
C8_QueriesNeverRaise ==
    (psd.status = "built" /\ q.op \in SmartObjectQueries) =>
        /\ q.res.tag # "raised"
        /\ DOMAIN doc.tagged_blocks = {} => q.res.tag = "None"
        /\ EntryRead(q.op) = "absent" => q.res.tag = "None"
        /\ (q.op = "linked_data" /\ placed_layer_block.ID \notin doc.embedded)
              => q.res.tag = "None"

\* What holds of C8: without any block every query returns null.
C8_NoBlockGivesNull ==
    (psd.status = "built" /\ q.op \in SmartObjectQueries
        /\ DOMAIN doc.tagged_blocks = {}) => q.res.tag = "None"

(***************************************************************************)
(* TypeLayer.style_spans.  Here doc holds the engine data of one type      *)
(* layer: the full text, the run lengths, the runs' style sheets and the   *)
(* font set.                                                               *)
(***************************************************************************)
MaxText == 3

MaxRuns == 2

SeqsUpTo(S, n) == UNION {[1..k -> S] : k \in 0..n}

Smaller(a, b) == IF a < b THEN a ELSE b

\* text[i:j] as Python slices a string, 0 <= i <= j.
Slice(text, i, j) ==
    SubSeq(text, Smaller(i, Len(text)) + 1, Smaller(j, Len(text)))

advance_none(start, size) == start

advance(start, size) == start + size

RECURSIVE SpanLoop(_, _, _)

\* The loop over zip(runarray, runlength), from its k-th pair on.
SpanLoop(k, start, spans) ==
    IF k > Len(doc.runarray) \/ k > Len(doc.runlength) THEN spans
    ELSE LET size == doc.runlength[k]
             run == doc.runarray[k]
             font == IF run.has_font THEN run.Font ELSE 0
             stylesheet == [Text |-> Slice(doc.text, start, start + size),
                            Font |-> doc.fontset[font + 1]]
         IN  SpanLoop(k + 1, advance(start, size), Append(spans, stylesheet))

style_spans == SpanLoop(1, 0, <<>>)

StyleSpans ==
    /\ q = NoQuery
    /\ q' = [op |-> "style_spans", res |-> style_spans]
    /\ UNCHANGED <<doc, psd>>

StyleSheets ==
    {[has_font |-> FALSE, Font |-> 0], [has_font |-> TRUE, Font |-> 0],
     [has_font |-> TRUE, Font |-> 1]}

InitSpans ==
    /\ \E text \in SeqsUpTo({"a", "b"}, MaxText),
          runlength \in SeqsUpTo(0..MaxText, MaxRuns),
          runarray \in SeqsUpTo(StyleSheets, MaxRuns) :
             doc = [text |-> text, runlength |-> runlength,
                    runarray |-> runarray, fontset |-> <<"font0", "font1">>]
    /\ psd = [status |-> "built"]
    /\ q = NoQuery

NextSpans == StyleSpans

SpecSpans == InitSpans /\ [][NextSpans]_vars

RECURSIVE SumTo(_, _), Concat(_, _)

\* The sum of the first k run lengths.
SumTo(lengths, k) == IF k = 0 THEN 0 ELSE SumTo(lengths, k - 1) + lengths[k]

\* The texts of the first k spans, one after the other.
Concat(spans, k) == IF k = 0 THEN <<>> ELSE Concat(spans, k - 1) \o spans[k].Text

Runs == Smaller(Len(doc.runarray), Len(doc.runlength))

\* C10 as stated: one record per run, record i carrying exactly the
\* characters [offset_i, offset_i + length_i) of the text, offset_i the sum of
\* the preceding run lengths, and the slices together being the full text.
C10_SpansCoverText ==
    q.op = "style_spans" =>
        /\ Len(q.res) = Len(doc.runlength)
        /\ \A i \in 1..Len(q.res) :
              /\ Len(q.res[i].Text) = doc.runlength[i]
              /\ \A c \in 1..Len(q.res[i].Text) :
                    /\ SumTo(doc.runlength, i - 1) + c <= Len(doc.text)
                    /\ q.res[i].Text[c] = doc.text[SumTo(doc.runlength, i - 1) + c]
        /\ Concat(q.res, Len(q.res)) = doc.text

\* C10 as amended: one record per zipped pair of run and run length, record i
\* carrying the characters from offset_i up to offset_i + length_i that the
\* text has, with the font of its run; together the slices are the first
\* min(sum of the run lengths, length of the text) characters; they are the
\* full text, each slice of its run's length, when the two arrays are equally
\* long and the run lengths sum to the length of the text.
C10_SpansCoverPrefix ==
    q.op = "style_spans" =>
        /\ Len(q.res) = Runs
        /\ \A i \in 1..Len(q.res) :
              /\ Len(q.res[i].Text) =
                    Smaller(SumTo(doc.runlength, i), Len(doc.text))
                      - Smaller(SumTo(doc.runlength, i - 1), Len(doc.text))
              /\ \A c \in 1..Len(q.res[i].Text) :
                    q.res[i].Text[c] = doc.text[SumTo(doc.runlength, i - 1) + c]
              /\ q.res[i].Font =
                    doc.fontset[(IF doc.runarray[i].has_font
                                 THEN doc.runarray[i].Font ELSE 0) + 1]
        /\ Concat(q.res, Len(q.res)) =
              SubSeq(doc.text, 1, Smaller(SumTo(doc.runlength, Runs), Len(doc.text)))
        /\ (/\ Len(doc.runarray) = Len(doc.runlength)
            /\ SumTo(doc.runlength, Len(doc.runlength)) = Len(doc.text))
           => /\ Concat(q.res, Len(q.res)) = doc.text
              /\ \A i \in 1..Len(q.res) : Len(q.res[i].Text) = doc.runlength[i]

\* Two runs of one or more characters each, summing to the text's length,
\* were split into two spans.
C10_Witness ==
    /\ q.op = "style_spans"
    /\ Len(doc.runarray) = 2
    /\ Len(doc.runlength) = 2
    /\ doc.runlength[1] > 0
    /\ doc.runlength[2] > 0
    /\ doc.runlength[1] + doc.runlength[2] = Len(doc.text)
    /\ Len(q.res) = 2
    /\ q.res[1].Text \o q.res[2].Text = doc.text

(***************************************************************************)
(* merge_layers: which layers are rasterized, where they are placed, and   *)
(* what a dropped layer leaves behind.                                     *)
(***************************************************************************)
\* The layers the call rasterized.
RasterizedByCall ==
    rasterized(q.layers, q.respect_visibility, q.skip_layer, q.bbox)

\* The three tests as the specification words them.
PassesTests(L) ==
    /\ Width(bbox(L)) # 0
    /\ Height(bbox(L)) # 0
    /\ L \notin q.skip_layer
    /\ visible(L) \/ ~q.respect_visibility

\* C11: in a call that returns a raster, a layer of the list is rasterized
\* exactly when its bbox has neither zero width nor zero height, skip_layer
\* is false for it, and it is visible or respect_visibility is off; when no
\* layer passes, the canvas stays fully transparent.
C11_SkipTests ==
    (psd.status = "built" /\ q.op = "merge" /\ q.res.tag = "image") =>
        /\ \A i \in 1..Len(q.layers) :
              (q.layers[i] \in RasterizedByCall) = PassesTests(q.layers[i])
        /\ (\A i \in 1..Len(q.layers) : ~PassesTests(q.layers[i]))
              => q.res = NewImage(q.res.w, q.res.h)

\* C12: a painted layer is offset by (bbox.x1 - canvas.x1, bbox.y1 -
\* canvas.y1); a negative component is clamped to zero and that many columns
\* or rows are cut off the left or the top of the raster, so the offset used
\* is never negative; pixel (i, j) of the raster lands at canvas position
\* (bbox.x1 - canvas.x1 + i, bbox.y1 - canvas.y1 + j) when that position is on
\* the canvas (seen where the pixel is opaque and no layer above covers it).
C12_PlacementOffset ==
    (psd.status = "built" /\ q.op = "merge" /\ q.res.tag = "image") =>
        LET R == PaintedRasters
            Shows(i) == R[i].mode \in {"RGBA", "RGB"}
            X0(i) == bbox(q.layers[i])[1] - ResolvedBBox[1]
            Y0(i) == bbox(q.layers[i])[2] - ResolvedBBox[2]
            Cut(o) == IF o < 0 THEN -o ELSE 0
            Left(n, c) == IF n > c THEN n - c ELSE 0
            Lands(i, p) ==
                /\ Shows(i)
                /\ <<p[1] - X0(i), p[2] - Y0(i)>> \in DOMAIN R[i].px
        IN  \A i \in DOMAIN R :
              LET at == place(q.layers[i], R[i], ResolvedBBox)
              IN  /\ at.x = (IF X0(i) < 0 THEN 0 ELSE X0(i))
                  /\ at.y = (IF Y0(i) < 0 THEN 0 ELSE Y0(i))
                  /\ at.x >= 0
                  /\ at.y >= 0
                  /\ at.image.w = Left(R[i].w, Cut(X0(i)))
                  /\ at.image.h = Left(R[i].h, Cut(Y0(i)))
                  /\ \A s \in DOMAIN at.image.px :
                        at.image.px[s] =
                            R[i].px[<<s[1] + Cut(X0(i)), s[2] + Cut(Y0(i))>>]
                  /\ \A s \in DOMAIN R[i].px :
                        LET p == <<X0(i) + s[1], Y0(i) + s[2]>>
                        IN  (/\ p \in DOMAIN q.res.px
                             /\ Shows(i)
                             /\ R[i].px[s].a = 255
                             /\ \A j \in DOMAIN R :
                                   (j < i /\ Lands(j, p)) =>
                                      R[j].px[<<p[1] - X0(j), p[2] - Y0(j)>>].a = 0)
                            => q.res.px[p] = R[i].px[s]

\* A layer that starts one column left of and one row above the canvas was
\* painted alone: its pixel (1, 1) is what the canvas shows at (0, 0).
C12_Witness ==
    /\ psd.status = "built"
    /\ q.op = "merge"
    /\ q.res.tag = "image"
    /\ Len(q.layers) = 1
    /\ Painted(q.layers[1])
    /\ ~IsGroup(q.layers[1])
    /\ bbox(q.layers[1])[1] - ResolvedBBox[1] = -1
    /\ bbox(q.layers[1])[2] - ResolvedBBox[2] = -1
    /\ place(q.layers[1], RasterOf(q.layers[1]), ResolvedBBox).x = 0
    /\ place(q.layers[1], RasterOf(q.layers[1]), ResolvedBBox).y = 0
    /\ place(q.layers[1], RasterOf(q.layers[1]), ResolvedBBox).image.w = 1
    /\ q.res.px[<<0, 0>>] = RasterOf(q.layers[1]).px[<<1, 1>>]
    /\ q.res.px[<<0, 0>>] # RasterOf(q.layers[1]).px[<<0, 0>>]

\* The list without its i-th element.
Without(list, i) == SubSeq(list, 1, i - 1) \o SubSeq(list, i + 1, Len(list))

\* A layer the blend step drops: its blend mode is not normal, or its raster
\* is neither RGBA nor RGB.
Dropped(L) ==
    \/ blend_mode(L) # "normal"
    \/ ~IsGroup(L) /\ look(L).mode \notin {"RGBA", "RGB"}

\* The loop aborts on layer L itself: L has no bbox, or L passes the skip
\* tests and its nested merge does not return a raster.
AbortsOn(L) ==
    IF bbox(L) = NoBBox THEN TRUE
    ELSE /\ ~skipped(L, q.respect_visibility, q.skip_layer)
         /\ IsGroup(L)
         /\ RasterOfGroup(L).tag # "image"

\* C13 as stated: a layer whose blend mode is not normal, or whose raster has
\* an unsupported pixel mode, leaves the canvas as the layers below produced
\* it and the layers above are still processed: the result equals the result
\* of merging the same list with that layer removed (judged on the calls
\* that return a raster).
C13_DroppedLayerAsRemoved ==
    (psd.status = "built" /\ q.op = "merge" /\ q.res.tag = "image") =>
        \A i \in 1..Len(q.layers) :
            Dropped(q.layers[i]) =>
                q.res = merge_layers(Without(q.layers, i), q.respect_visibility,
                                     q.skip_layer, q.bbox)

\* C13 amended: the dropped layer still counts for the canvas box and is
\* still rasterized.  The result equals the result of merging the list
\* without that layer onto the box resolved for the full list; it is null
\* when that box is null, and the call aborts when the loop aborts on the
\* dropped layer itself.
C13_DroppedLayerSameCanvas ==
    (psd.status = "built" /\ q.op = "merge") =>
        \A i \in 1..Len(q.layers) :
            Dropped(q.layers[i]) =>
                q.res = IF ResolvedBBox = NoBBox THEN NoneImage
                        ELSE IF AbortsOn(q.layers[i]) THEN Raised
                        ELSE merge_layers(Without(q.layers, i),
                                          q.respect_visibility, q.skip_layer,
                                          ResolvedBBox)

\* A normal layer above a layer of another blend mode that reaches past it,
\* merged without a target box: the canvas is the box of both, it shows the
\* normal layer only, and it is not the raster the normal layer gives alone.
C13_Witness ==
    /\ psd.status = "built"
    /\ q.op = "merge"
    /\ q.res.tag = "image"
    /\ q.bbox = NoBBox
    /\ Len(q.layers) = 2
    /\ Painted(q.layers[1])
    /\ ~IsGroup(q.layers[1])
    /\ blend_mode(q.layers[2]) # "normal"
    /\ q.layers[2] \in RasterizedByCall
    /\ ResolvedBBox = bbox(q.layers[2])
    /\ ResolvedBBox # bbox(q.layers[1])
    /\ q.res # NewImage(q.res.w, q.res.h)
    /\ q.res = merge_layers(<<q.layers[1]>>, q.respect_visibility,
                            q.skip_layer, ResolvedBBox)
    /\ q.res # merge_layers(<<q.layers[1]>>, q.respect_visibility,
                            q.skip_layer, NoBBox)

\* The nodes that sit in some layer's clip list.
ClipNodes == {L \in Nodes : InClips(L) # {}}

RECURSIVE Below(_)

\* The nodes reached from group G through children lists.
Below(G) ==
    Children(G) \cup UNION {Below(c) : c \in {d \in Children(G) : IsGroup(d)}}

\* The nodes reached from the call's list through children lists.
ReachedFromList ==
    LET Listed == {q.layers[i] : i \in 1..Len(q.layers)}
    IN  Listed \cup UNION {Below(c) : c \in {d \in Listed : IsGroup(d)}}

\* C14: a call of merge_layers, Group.as_PIL and PSDImage.as_PIL_merged
\* included, rasterizes only nodes reached from its list through children
\* lists; a node of a clip list is never rasterized and no pixel of it is on
\* the canvas, so the composite owes nothing to the clip lists.
C14_ClipsNeverMerged ==
    (psd.status = "built" /\ q.op = "merge") =>
        /\ RasterizedByCall \subseteq ReachedFromList
        /\ RasterizedByCall \cap ClipNodes = {}
        /\ q.res.tag = "image" =>
              \A L \in ClipNodes : \A p \in DOMAIN q.res.px :
                  \A s \in DOMAIN as_PIL(L).px :
                      q.res.px[p] # as_PIL(L).px[s]

\* A painted layer of the merged list has a clip entry whose box lies on the
\* canvas: the layer was rasterized and shows, the clip entry was not.
C14_Witness ==
    /\ psd.status = "built"
    /\ q.op = "merge"
    /\ q.res.tag = "image"
    /\ \E i \in 1..Len(q.layers) :
          /\ Painted(q.layers[i])
          /\ q.layers[i] \in RasterizedByCall
          /\ \E j \in 1..Len(psd.nodes[q.layers[i]].clip_layers) :
                LET clip == psd.nodes[q.layers[i]].clip_layers[j]
                IN  /\ clip \in ClipNodes
                    /\ clip \notin RasterizedByCall
                    /\ HasArea(bbox(clip))
                    /\ bbox(clip)[1] = ResolvedBBox[1]
                    /\ bbox(clip)[2] = ResolvedBBox[2]
                    /\ visible(clip)
                    /\ blend_mode(clip) = "normal"
    /\ q.res # NewImage(q.res.w, q.res.h)

====
